---- MODULE Spec2Model ----
(***************************************************************************)
(* The ComfyUI miner: the service loop of MinerService (start_service,     *)
(* check_health, send_miner_request), one thread per accepted task         *)
(* (handle_task, submit_result), the task pipeline of TaskProcessor and    *)
(* the generation client ComfyUI (run_workflow, temporary_directory,       *)
(* inject_args_into_workflow, get_outputs).                                *)
(***************************************************************************)
EXTENDS Integers, Sequences, FiniteSets, TLC

(***************************************************************************)
(* Program constants.                                                      *)
(***************************************************************************)
max_retries == 3
base_wait == 2
health_check_interval == 10
startup_timeout == 120
startup_sleep == 2
interval == 2

(***************************************************************************)
(* Bounds of the model.                                                    *)
(***************************************************************************)
\* longest duration, in seconds, of the network calls of one loop iteration
MaxDelay == 1
\* tasks the dispatch server hands out before it only answers "no task"
MaxStarted == 1
\* concurrently running handle_task threads
NumThreads == 2
\* longest measured latency, in seconds
MaxLatency == 1

Threads == 1..NumThreads
Latencies == 1..MaxLatency

Min(a, b) == IF a <= b THEN a ELSE b

RECURSIVE Pow2(_)
Pow2(n) == IF n = 0 THEN 1 ELSE 2 * Pow2(n - 1)

RECURSIVE SumSeq(_)
SumSeq(s) == IF s = << >> THEN 0 ELSE Head(s) + SumSeq(Tail(s))

(***************************************************************************)
(* JSON values of a task body.  NoField stands for a key that is absent,   *)
(* JsonNull for a JSON null.                                               *)
(***************************************************************************)
NoField == "<absent>"
JsonNull == "<null>"
None == [kind |-> "None"]

\* Python truthiness of a string-or-absent field read with dict.get
Truthy(v) == v # NoField /\ v # JsonNull /\ v # ""

(***************************************************************************)
(* WorkflowConfig: the registry loaded from workflows.yml.                 *)
(***************************************************************************)
WorkflowIds == {"1", "2", "3"}

workflow_configs ==
    [w \in WorkflowIds |->
        CASE w = "1" ->
                [task_type |-> "txt2vid", output |-> [prefix |-> "hunyuan", format |-> "mp4"]]
          [] w = "2" ->
                [task_type |-> "txt2img", output |-> [prefix |-> "flux", format |-> "jpg"]]
          [] OTHER ->
                [task_type |-> "upscale", output |-> [prefix |-> "upscale", format |-> "png"]]]

\* workflow ids that cannot be a dict key (a JSON list): dict.get raises TypeError
Unhashable(workflow_id) == workflow_id = "[1]"

get_workflow_config(workflow_id) ==
    IF workflow_id \in WorkflowIds
    THEN [found |-> TRUE, config |-> workflow_configs[workflow_id]]
    ELSE [found |-> FALSE]

\* a test that accepts every task type of a registered workflow
is_valid_task_type_any(workflow_id, task_type) ==
    LET c == get_workflow_config(workflow_id)
    IN  IF ~c.found THEN FALSE ELSE TRUE

is_valid_task_type(workflow_id, task_type) ==
    LET c == get_workflow_config(workflow_id)
    IN  IF ~c.found THEN FALSE ELSE c.config.task_type = task_type

get_config(workflow_id) ==
    LET c == get_workflow_config(workflow_id)
    IN  IF ~c.found THEN None
        ELSE [kind |-> "TaskConfig", workflow |-> workflow_id, endpoint |-> workflow_id]

get_output_config(workflow_id) ==
    LET c == get_workflow_config(workflow_id)
    IN  IF ~c.found THEN None ELSE [kind |-> "output", output |-> c.config.output]

(***************************************************************************)
(* TaskProcessor.extract_parameters.  task_details is absent, a string     *)
(* that is not JSON, a JSON string or an object; the result is None, an    *)
(* empty dict or a non-empty dict.                                         *)
(***************************************************************************)
TaskDetails ==
    {NoField, "str:notjson", "str:{prompt}", "str:[]", "obj:{prompt}",
     "obj:{parameters}", "obj:{parameters:{}}", "obj:{}", "obj:{prompt,parameters}"}

\* json.loads of a string value; objects pass through
ParseDetails(d) ==
    CASE d = NoField -> [ok |-> TRUE, info |-> "{}"]
      [] d = "str:notjson" -> [ok |-> FALSE, info |-> ""]
      [] d = "str:{prompt}" -> [ok |-> TRUE, info |-> "{prompt}"]
      [] d = "str:[]" -> [ok |-> TRUE, info |-> "[]"]
      [] d = "obj:{prompt}" -> [ok |-> TRUE, info |-> "{prompt}"]
      [] d = "obj:{parameters}" -> [ok |-> TRUE, info |-> "{parameters}"]
      [] d = "obj:{parameters:{}}" -> [ok |-> TRUE, info |-> "{parameters:{}}"]
      [] d = "obj:{prompt,parameters}" -> [ok |-> TRUE, info |-> "{prompt,parameters}"]
      [] OTHER -> [ok |-> TRUE, info |-> "{}"]

extract_parameters(task_details) ==
    LET p == ParseDetails(task_details)
    IN  IF ~p.ok THEN "None"                        \* json.JSONDecodeError
        ELSE CASE p.info \in {"{prompt}", "{prompt,parameters}"} -> "{prompt}"
               [] p.info = "{parameters}" -> "{parameters}"
               [] p.info = "[]" -> "None"           \* list has no .get: Exception
               [] OTHER -> "{}"                     \* info.get("parameters", {})

\* a test for None alone: `if parameters is None`
ParametersIsNone(parameters) == parameters = "None"

ParametersFalsy(parameters) == parameters \in {"None", "{}"}

(***************************************************************************)
(* The dispatch protocol: what one POST to /miner_request can come back    *)
(* with, and the bodies of a 200 response.                                 *)
(***************************************************************************)
FailKinds == {"status", "Timeout", "ConnectionError"}
ResponseKinds == {"200", "200:notjson", "exception"} \cup FailKinds

Body(task_id, msg, workflow_id, task_type, task_details, credential) ==
    [task_id |-> task_id, msg |-> msg, workflow_id |-> workflow_id,
     task_type |-> task_type, task_details |-> task_details, credential |-> credential]

EmptyBody == Body(NoField, NoField, NoField, NoField, NoField, NoField)

Response(kind, body) == [kind |-> kind, body |-> body]

\* "running" in msg
ContainsRunning(msg) == msg \in {"running", "task is running"}

TaskId(t) == "t" \o ToString(t)

(***************************************************************************)
(* MinerService.send_miner_request, as a function of the responses the     *)
(* server gives to the successive POSTs.  The result records the value     *)
(* returned, the POSTs made, the backoff waits slept and the final         *)
(* server_connected flag.                                                  *)
(***************************************************************************)
PollReturn(result, posts, waits, connected) ==
    [result |-> result, posts |-> posts, waits |-> waits, server_connected |-> connected]

\* a backoff that grows by base_wait instead of doubling
wait_time_linear(attempt) == base_wait * (attempt + 1)

wait_time(attempt) == base_wait * Pow2(attempt)

\* a send_miner_request that sleeps the backoff before it returns a 200 body
RECURSIVE AttemptsWaitOn200(_, _, _, _)
AttemptsWaitOn200(attempt, responses, connected, waits) ==
    IF attempt = max_retries
    THEN [result |-> None, posts |-> attempt, waits |-> waits, server_connected |-> FALSE]
    ELSE LET r == responses[attempt + 1]
         IN  CASE r.kind = "200" ->
                    [result |-> [kind |-> "body", body |-> r.body], posts |-> attempt + 1,
                     waits |-> Append(waits, base_wait * Pow2(attempt)),
                     server_connected |-> TRUE]
               [] r.kind \in FailKinds ->
                    AttemptsWaitOn200(attempt + 1, responses, FALSE,
                                      Append(waits, base_wait * Pow2(attempt)))
               [] OTHER ->
                    [result |-> None, posts |-> attempt + 1, waits |-> waits,
                     server_connected |-> FALSE]

\* a send_miner_request that treats every exception as a connection error
RECURSIVE AttemptsRetryAll(_, _, _, _)
AttemptsRetryAll(attempt, responses, connected, waits) ==
    IF attempt = max_retries
    THEN PollReturn(None, attempt, waits, FALSE)
    ELSE LET r == responses[attempt + 1]
         IN  CASE r.kind = "200" ->
                    PollReturn([kind |-> "body", body |-> r.body], attempt + 1, waits, TRUE)
               [] OTHER ->
                    AttemptsRetryAll(attempt + 1, responses, FALSE,
                                     Append(waits, base_wait * Pow2(attempt)))

\* a send_miner_request that gives up at the first failure when it was
\* already disconnected
RECURSIVE AttemptsGated(_, _, _, _)
AttemptsGated(attempt, responses, connected, waits) ==
    IF attempt = max_retries
    THEN PollReturn(None, attempt, waits, FALSE)
    ELSE LET r == responses[attempt + 1]
         IN  CASE r.kind = "200" ->
                    PollReturn([kind |-> "body", body |-> r.body], attempt + 1, waits, TRUE)
               [] r.kind \in FailKinds ->
                    IF ~connected /\ attempt = 0
                    THEN PollReturn(None, attempt + 1, waits, FALSE)
                    ELSE AttemptsGated(attempt + 1, responses, FALSE,
                                       Append(waits, base_wait * Pow2(attempt)))
               [] OTHER ->
                    PollReturn(None, attempt + 1, waits, FALSE)

RECURSIVE Attempts(_, _, _, _)
Attempts(attempt, responses, connected, waits) ==
    IF attempt = max_retries
    THEN PollReturn(None, attempt, waits, FALSE)
    ELSE LET r == responses[attempt + 1]
         IN  CASE r.kind = "200" ->
                    PollReturn([kind |-> "body", body |-> r.body], attempt + 1, waits, TRUE)
               [] r.kind \in FailKinds ->
                    Attempts(attempt + 1, responses, FALSE,
                             Append(waits, wait_time(attempt)))
               [] OTHER ->  \* response.json() or the POST raised another Exception
                    PollReturn(None, attempt + 1, waits, FALSE)

send_miner_request(server_connected, responses) ==
    Attempts(0, responses, server_connected, << >>)

(***************************************************************************)
(* MinerService.check_health and ComfyUI.is_server_running.                *)
(***************************************************************************)
ProbeOutcomes == {"200", "status", "exception"}

is_server_running(outcome) == outcome = "200"

\* the except branch of is_server_running logs unless startup_check
is_server_running_logs(startup_check, outcome) ==
    IF outcome = "exception" /\ ~startup_check
    THEN <<"Connection error during health check">> ELSE << >>

\* a check_health that logs every failed probe
check_health_logs_each_failure(startup_check, outcome, healthy) ==
    LET is_running == is_server_running(outcome)
    IN  IF startup_check
        THEN [healthy |-> is_running, ret |-> is_running, log |-> "none"]
        ELSE CASE ~is_running ->
                    [healthy |-> FALSE, ret |-> FALSE, log |-> "not responding"]
               [] is_running /\ ~healthy ->
                    [healthy |-> TRUE, ret |-> TRUE, log |-> "recovered"]
               [] OTHER -> [healthy |-> healthy, ret |-> healthy, log |-> "none"]

\* a check_health without the recovery branch
check_health_sticky(startup_check, outcome, healthy) ==
    LET is_running == is_server_running(outcome)
    IN  IF startup_check
        THEN [healthy |-> is_running, ret |-> is_running, log |-> "none"]
        ELSE CASE ~is_running /\ healthy ->
                    [healthy |-> FALSE, ret |-> FALSE, log |-> "not responding"]
               [] OTHER -> [healthy |-> healthy, ret |-> healthy, log |-> "none"]

check_health(startup_check, outcome, healthy) ==
    LET is_running == is_server_running(outcome)
    IN  IF startup_check
        THEN [healthy |-> is_running, ret |-> is_running, log |-> "none"]
        ELSE CASE ~is_running /\ healthy ->
                    [healthy |-> FALSE, ret |-> FALSE, log |-> "not responding"]
               [] is_running /\ ~healthy ->
                    [healthy |-> TRUE, ret |-> TRUE, log |-> "recovered"]
               [] OTHER -> [healthy |-> healthy, ret |-> healthy, log |-> "none"]

\* a condition that does not look at msg
DispatchIgnoresRunning(task_data) ==
    IF task_data.kind = "None" THEN "noop"
    ELSE IF ~Truthy(task_data.body.task_id) THEN "noop" ELSE "start"

(***************************************************************************)
(* The condition of start_service that decides whether a poll result       *)
(* starts a task thread: "start", "noop", or "raise" when the expression   *)
(* itself raises (`in` applied to a null msg).                             *)
(***************************************************************************)
Dispatch(task_data) ==
    IF task_data.kind = "None" THEN "noop"
    ELSE LET b == task_data.body
         IN  IF b = EmptyBody THEN "noop"
             ELSE IF ~Truthy(b.task_id) THEN "noop"
             ELSE IF b.msg = JsonNull THEN "raise"
             ELSE IF ContainsRunning(b.msg) THEN "noop"
             ELSE "start"

(***************************************************************************)
(* Reports (the JSON body of POST /miner_submit) and storage keys.  A key  *)
(* is the sequence of the pieces it is formatted from; "" is << >>.        *)
(***************************************************************************)
erc20_address == "0xminer"

NoKey == << >>

Report(task_id, s3_key, inference_latency, upload_latency, success, msg) ==
    [success |-> success, task_id |-> task_id, miner_id |-> erc20_address,
     result |-> s3_key, inference_latency |-> inference_latency,
     upload_latency |-> upload_latency, msg |-> msg]

\* MinerService.submit_result: one POST of the report; it logs the outcome and
\* swallows every exception, so the caller only ever sees it return
submit_result(sent, report) == Append(sent, report)

(***************************************************************************)
(* Task setup of handle_task: the checks made before the pipeline runs.    *)
(* The result is the failure message, or "" when every check passes.       *)
(***************************************************************************)
TaskSetup(task_data) ==
    LET workflow_id == task_data.workflow_id
    IN  IF ~Truthy(workflow_id) THEN "Missing workflow_id"
        ELSE IF Unhashable(workflow_id) THEN "unhashable type: 'list'"
        ELSE IF ~is_valid_task_type(workflow_id, task_data.task_type)
             THEN "Invalid task type for workflow"
        ELSE IF get_config(workflow_id) = None THEN "Invalid workflow configuration"
        ELSE IF ParametersFalsy(extract_parameters(task_data.task_details))
             THEN "Failed to extract parameters"
        ELSE ""

(***************************************************************************)
(* ComfyUI.run_workflow: what can happen up to the submission of the job,  *)
(* and once the completion notification has arrived.  An output_data value *)
(* is an error dict or an artifact path.                                   *)
(***************************************************************************)
SubmitOutcomes == {"open:raise", "prepare:msg", "prepare:raise", "queue:raise", "queued"}

\* the outcomes in which inject_args_into_workflow was reached
ReachesInject(o) == o \in {"queue:raise", "queued"}

ErrorDict(msg) == [kind |-> "error", error |-> msg, path |-> ""]
PathStr(path) == [kind |-> "path", error |-> "", path |-> path]

SubmitError(o) ==
    CASE o = "open:raise" -> ErrorDict("[Errno 2] No such file or directory")
      [] o = "prepare:msg" -> ErrorDict("Invalid parameter")
      [] o = "prepare:raise" -> ErrorDict("")      \* str(e) of an exception without arguments
      [] OTHER -> ErrorDict("HTTP Error 400: Bad Request")

ResolveOutcomes == {"history:raise", "no_node", "empty", "no_file", "file", "file:error"}

\* a run_workflow that returns the path without os.path.exists
ResolveNoFileCheck(o) ==
    CASE o = "history:raise" -> ErrorDict("'outputs'")
      [] o = "no_node" -> ErrorDict("No output found for node id 9")
      [] o = "empty" -> ErrorDict("No outputs generated")
      [] o = "no_file" -> PathStr("/ComfyUI/output/missing_00001.mp4")
      [] o = "file" -> PathStr("/ComfyUI/output/video_00001.mp4")
      [] OTHER -> PathStr("/ComfyUI/output/error_00001.mp4")

Resolve(o) ==
    CASE o = "history:raise" -> ErrorDict("'outputs'")
      [] o = "no_node" -> ErrorDict("No output found for node id 9")
      [] o = "empty" -> ErrorDict("No outputs generated")
      [] o = "no_file" -> ErrorDict("Output file not found")
      [] o = "file" -> PathStr("/ComfyUI/output/video_00001.mp4")
      [] OTHER -> PathStr("/ComfyUI/output/error_00001.mp4")

\* the Python expression `"error" in output_data`: a key test on a dict, a
\* substring test on a str
ErrorIn(output_data) ==
    IF output_data.kind = "error" THEN TRUE
    ELSE output_data.path = "/ComfyUI/output/error_00001.mp4"

(***************************************************************************)
(* Notifications on the websocket of get_outputs.                          *)
(***************************************************************************)
BinaryFrame == [frame |-> "binary", type |-> "", node |-> "", prompt_id |-> 0]
TextFrame(type, node, prompt_id) ==
    [frame |-> "text", type |-> type, node |-> node, prompt_id |-> prompt_id]

Frames ==
    {BinaryFrame} \cup {TextFrame("status", "null", 0)}
        \cup {TextFrame("executing", n, p) : n \in {"null", "5"}, p \in Threads}

\* the job id queue_prompt returns to thread t
PromptId(t) == t

\* a test that compares with another job's id
ExecutionDoneWrongId(message, prompt_id) ==
    /\ message.frame = "text"
    /\ message.type = "executing"
    /\ message.node = "null"
    /\ message.prompt_id = prompt_id + 1

\* a test that does not compare the job id
ExecutionDoneAnyJob(message, prompt_id) ==
    /\ message.frame = "text"
    /\ message.type = "executing"
    /\ message.node = "null"

\* the test of get_outputs that ends the wait
ExecutionDone(message, prompt_id) ==
    /\ message.frame = "text"
    /\ message.type = "executing"
    /\ message.node = "null"
    /\ message.prompt_id = prompt_id

(***************************************************************************)
(* TaskProcessor.handle_output and _upload_to_s3.  upload is the outcome   *)
(* of the transfer; the result is (s3_key, upload_latency), with is_none   *)
(* for a latency of None.                                                  *)
(***************************************************************************)
UploadOutcomes == {"200", "status", "raise"}

Outcome(s3_key, is_none, upload_latency) ==
    [s3_key |-> s3_key, is_none |-> is_none, upload_latency |-> upload_latency]

\* an upload that returns the latency whatever the status code
upload_to_s3_any_status(upload, latency) ==
    IF upload \in {"200", "status"} THEN [is_none |-> FALSE, upload_latency |-> latency]
    ELSE [is_none |-> TRUE, upload_latency |-> 0]

upload_to_s3(upload, latency) ==
    IF upload = "200" THEN [is_none |-> FALSE, upload_latency |-> latency]
    ELSE [is_none |-> TRUE, upload_latency |-> 0]

S3Key(dir, task_id, workflow_id) ==
    LET output_config == get_output_config(workflow_id).output
    IN  <<dir, output_config.prefix, "-", erc20_address, "-", task_id, ".",
          output_config.format>>

\* a handle_output that builds a key and uploads for every task type
handle_output_any_type(task_id, task_type, workflow_id, upload, latency) ==
    IF get_output_config(workflow_id) = None THEN Outcome(NoKey, TRUE, 0)
    ELSE LET s3_key == S3Key(IF task_type = "txt2vid" THEN "test-video/" ELSE "flux-lora/",
                             task_id, workflow_id)
             up == upload_to_s3(upload, latency)
         IN  Outcome(s3_key, up.is_none, up.upload_latency)

\* a handle_output that files every artifact under test-video/
handle_output_one_directory(task_id, task_type, workflow_id, upload, latency) ==
    IF get_output_config(workflow_id) = None THEN Outcome(NoKey, TRUE, 0)
    ELSE IF task_type \notin {"txt2vid", "txt2img"} THEN Outcome(NoKey, TRUE, 0)
    ELSE LET s3_key == S3Key("test-video/", task_id, workflow_id)
             up == upload_to_s3(upload, latency)
         IN  Outcome(s3_key, up.is_none, up.upload_latency)

handle_output(task_id, task_type, workflow_id, upload, latency) ==
    IF get_output_config(workflow_id) = None THEN Outcome(NoKey, TRUE, 0)
    ELSE IF task_type \notin {"txt2vid", "txt2img"} THEN Outcome(NoKey, TRUE, 0)
    ELSE LET s3_key == S3Key(IF task_type = "txt2vid" THEN "test-video/" ELSE "flux-lora/",
                             task_id, workflow_id)
             up == upload_to_s3(upload, latency)
         IN  Outcome(s3_key, up.is_none, up.upload_latency)

\* `not upload_latency`
NotLatency(outcome) == outcome.is_none \/ outcome.upload_latency = 0

(***************************************************************************)
(* State.                                                                  *)
(***************************************************************************)
VARIABLES
    phase,             \* start_service: "startup", "running", "exited"; "off": no loop
    healthy,           \* MinerService.healthy
    server_connected,  \* MinerService.server_connected
    sinceStart,        \* time.time() - start_time while the startup loop runs
    sinceCheck,        \* time.time() - last_health_check, counted up to health_check_interval
    startupOK,         \* a startup probe has returned healthy
    everPolled,        \* send_miner_request has been called
    started,           \* handle_task threads started by the loop
    tick,              \* what the last iteration of the steady-state loop did
    checked,           \* the check_health call of the last step of the loop, if it made one
    pc,                \* per thread: where handle_task stands
    task,              \* per thread: the task_data of handle_task
    stages,            \* per thread: the stages invoked, in order
    failed,            \* per thread: the first stage that failed, or ""
    reports,           \* per thread: the reports POSTed by submit_result
    output,            \* per thread: output_data and inference_latency of execute_workflow
    completed,         \* per thread: the backend has sent the job's completion notification
    temp_files_dir,    \* ComfyUI.temp_files_dir: the thread whose directory it names, 0 unset
    scoped,            \* per thread: the directory of temporary_directory
    sub,               \* per thread: the sub-directory made for `folder` preprocessing
    call               \* one call of send_miner_request: its responses and its return

loopvars == <<phase, healthy, server_connected, sinceStart, sinceCheck, startupOK,
              everPolled, started, tick, checked>>
taskvars == <<pc, task, stages, failed, reports, output, completed>>
fsvars == <<temp_files_dir, scoped, sub>>
vars == <<loopvars, taskvars, fsvars, call>>

NoTick ==
    [valid |-> FALSE, probed |-> FALSE, healthy |-> TRUE, posts |-> 0, waits |-> << >>,
     result |-> None, dispatch |-> "noop", started |-> 0, slept |-> 0]

\* no check_health call
NoCheck ==
    [startup_check |-> FALSE, outcome |-> "none", before |-> TRUE, ret |-> TRUE,
     logs |-> << >>]

\* a check_health call: the probe's outcome, the flag before the call, the
\* value returned and the log entries of is_server_running and check_health
Checked(startup_check, outcome, before) ==
    LET h == check_health(startup_check, outcome, before)
    IN  [startup_check |-> startup_check, outcome |-> outcome, before |-> before,
         ret |-> h.ret,
         logs |-> is_server_running_logs(startup_check, outcome)
                    \o (IF h.log = "none" THEN << >> ELSE <<h.log>>)]

NoCall == [responses |-> << >>, done |-> FALSE, ret |-> PollReturn(None, 0, << >>, TRUE)]

NoOutput == [data |-> ErrorDict(""), inference_latency |-> 0]
NoSub == [parent |-> 0, state |-> "none"]

\* the payloads that pass task setup and reach the pipeline
ValidInputs ==
    {Body(NoField, NoField, "1", "txt2vid", d, c) :
        d \in {"obj:{prompt}"}, c \in {"dict", NoField}}

\* the payloads of one task: every combination of workflow id, task type and
\* task_details, every shape of the credential field of a valid task (NoField:
\* no `credential` key, as in a payload with the keys at the top level), and
\* a missing or unregistered task type
TaskInputs ==
    {Body(NoField, NoField, w, ty, d, "dict") :
        w \in {NoField, "1", "2", "9", "[1]"}, ty \in {"txt2vid", "txt2img"},
        d \in TaskDetails}
    \cup
    {Body(NoField, NoField, "1", "txt2vid", d, c) :
        d \in {"str:{prompt}", "obj:{parameters}"}, c \in {"dict", "str", "{}", NoField}}
    \cup
    {Body(NoField, NoField, w, ty, "obj:{prompt}", "dict") :
        w \in WorkflowIds, ty \in {NoField, "img2vid"}}
    \cup
    {Body(NoField, NoField, "3", "upscale", "obj:{prompt}", "dict")}

InitLoop ==
    /\ healthy = TRUE
    /\ sinceStart = 0
    /\ sinceCheck = 0
    /\ startupOK = FALSE
    /\ everPolled = FALSE
    /\ started = 0
    /\ tick = NoTick
    /\ checked = NoCheck

InitThreads ==
    /\ stages = [t \in Threads |-> << >>]
    /\ failed = [t \in Threads |-> ""]
    /\ reports = [t \in Threads |-> << >>]
    /\ output = [t \in Threads |-> NoOutput]
    /\ completed = [t \in Threads |-> FALSE]
    /\ temp_files_dir = 0
    /\ scoped = [t \in Threads |-> "none"]
    /\ sub = [t \in Threads |-> NoSub]

\* the service: MinerService constructed, start_service entered, no task yet
Init ==
    /\ InitLoop
    /\ InitThreads
    /\ phase = "startup"
    /\ pc = [t \in Threads |-> "idle"]
    /\ task = [t \in Threads |-> EmptyBody]
    /\ call = NoCall
    /\ server_connected = TRUE

\* handle_task threads alone, each just started on its task
InitTask ==
    /\ InitLoop
    /\ InitThreads
    /\ phase = "off"
    /\ call = NoCall
    /\ server_connected = TRUE
    /\ pc = [t \in Threads |-> "setup"]
    /\ \E first \in TaskInputs, rest \in [Threads \ {1} -> ValidInputs] :
          task = [t \in Threads |->
                    [(IF t = 1 THEN first ELSE rest[t]) EXCEPT !.task_id = TaskId(t)]]

(***************************************************************************)
(* handle_task, one thread per accepted task.                              *)
(***************************************************************************)
\* handle_task returns after submit_result(report); invoked lists the stages
\* this step invoked before it, fail the stage that failed (or "")
Reported(t, invoked, fail, report) ==
    /\ reports' = [reports EXCEPT ![t] = submit_result(@, report)]
    /\ stages' = [stages EXCEPT ![t] = @ \o invoked \o <<"submit">>]
    /\ failed' = [failed EXCEPT ![t] = fail]
    /\ pc' = [pc EXCEPT ![t] = "done"]

\* an except branch that does not report: the exception leaves handle_task
RaisedEscapes(t, e) ==
    /\ pc' = [pc EXCEPT ![t] = "done"]
    /\ UNCHANGED <<reports, stages, failed>>

\* the except branch of handle_task: submit_result(task_id, "", 0, 0, False, str(e))
Raised(t, e) ==
    Reported(t, << >>, "", Report(task[t].task_id, NoKey, 0, 0, FALSE, e))

\* a task setup whose failure branches report and do not return
HandleTaskSetupNoReturn(t) ==
    /\ pc[t] = "setup"
    /\ LET msg == TaskSetup(task[t])
       IN  /\ pc' = [pc EXCEPT ![t] = "execute"]
           /\ stages' = [stages EXCEPT ![t] =
                            IF msg = "" THEN Append(@, "validate")
                            ELSE @ \o <<"validate", "submit">>]
           /\ failed' = [failed EXCEPT ![t] = IF msg = "" THEN "" ELSE "validate"]
           /\ reports' = [reports EXCEPT ![t] =
                            IF msg = "" THEN @
                            ELSE submit_result(@, Report(task[t].task_id, NoKey, 0, 0,
                                                         FALSE, msg))]
    /\ UNCHANGED <<task, output, completed>>
    /\ UNCHANGED <<loopvars, fsvars, call>>

\* 1. Task Setup
HandleTaskSetup(t) ==
    /\ pc[t] = "setup"
    /\ LET msg == TaskSetup(task[t])
       IN  IF msg = ""
           THEN /\ pc' = [pc EXCEPT ![t] = "execute"]
                /\ stages' = [stages EXCEPT ![t] = Append(@, "validate")]
                /\ UNCHANGED <<failed, reports>>
           ELSE Reported(t, <<"validate">>, "validate",
                         Report(task[t].task_id, NoKey, 0, 0, FALSE, msg))
    /\ UNCHANGED <<task, output, completed>>
    /\ UNCHANGED <<loopvars, fsvars, call>>

\* shutil.rmtree of thread t's directory, applied to the sub-directories S
RmTree(S, t) ==
    [u \in Threads |->
        IF S[u].parent = t /\ S[u].state = "live"
        THEN [S[u] EXCEPT !.state = "removed"] ELSE S[u]]

\* a handle_task that reports an execution error and goes on to the upload
AfterExecutionContinues(t, output_data, inference_latency) ==
    IF output_data.kind = "error"
    THEN /\ reports' = [reports EXCEPT ![t] =
                submit_result(@, Report(task[t].task_id, NoKey, 0, 0, FALSE,
                                        output_data.error))]
         /\ stages' = [stages EXCEPT ![t] = Append(@, "submit")]
         /\ failed' = [failed EXCEPT ![t] = "execute"]
         /\ pc' = [pc EXCEPT ![t] = "upload"]
         /\ output' = [output EXCEPT ![t] =
                 [data |-> output_data, inference_latency |-> inference_latency]]
    ELSE /\ pc' = [pc EXCEPT ![t] = "upload"]
         /\ output' = [output EXCEPT ![t] =
                 [data |-> output_data, inference_latency |-> inference_latency]]
         /\ UNCHANGED <<stages, failed, reports>>

\* handle_task after execute_workflow: the check of output_data and of the credentials
AfterExecution(t, output_data, inference_latency) ==
    IF ErrorIn(output_data)
    THEN IF output_data.kind = "error"
         THEN Reported(t, << >>, "execute",
                       Report(task[t].task_id, NoKey, 0, 0, FALSE, output_data.error))
              /\ UNCHANGED output
         ELSE \* output_data["error"] on a str raises TypeError
              Raised(t, "string indices must be integers")
              /\ UNCHANGED output
    ELSE CASE task[t].credential \in {NoField, "{}"} ->
                Reported(t, << >>, "",
                         Report(task[t].task_id, NoKey, inference_latency, 0, FALSE,
                                "Missing credentials"))
                /\ UNCHANGED output
           [] task[t].credential = "str" ->
                \* credentials['miner_address'] = ... on a str raises TypeError
                Raised(t, "'str' object does not support item assignment")
                /\ UNCHANGED output
           [] OTHER ->
                /\ pc' = [pc EXCEPT ![t] = "upload"]
                /\ output' = [output EXCEPT ![t] =
                        [data |-> output_data, inference_latency |-> inference_latency]]
                /\ UNCHANGED <<stages, failed, reports>>

\* 2. Task Execution: run_workflow enters temporary_directory
RunWorkflowEnter(t) ==
    /\ pc[t] = "execute"
    /\ pc' = [pc EXCEPT ![t] = "inject"]
    /\ stages' = [stages EXCEPT ![t] = Append(@, "execute")]
    /\ scoped' = [scoped EXCEPT ![t] = "live"]
    /\ temp_files_dir' = t
    /\ UNCHANGED <<task, failed, reports, output, completed, sub>>
    /\ UNCHANGED <<loopvars, call>>

\* run_workflow up to queue_prompt: the files are read, the arguments
\* prepared and injected (folder: a parameter with `folder` preprocessing),
\* the websocket connected and the job submitted
RunWorkflowSubmit(t, o, folder, lat) ==
    /\ pc[t] = "inject"
    /\ LET inject == ReachesInject(o) /\ folder
           parent == temp_files_dir
           missing == inject /\ scoped[parent] # "live"
           made == IF inject /\ ~missing
                   THEN [sub EXCEPT ![t] = [parent |-> parent, state |-> "live"]]
                   ELSE sub
       IN  IF o = "queued" /\ ~missing
           THEN /\ pc' = [pc EXCEPT ![t] = "recv"]
                /\ sub' = made
                /\ UNCHANGED <<scoped, stages, failed, reports, output>>
           ELSE /\ scoped' = [scoped EXCEPT ![t] = "removed"]
                /\ sub' = RmTree(made, t)
                /\ AfterExecution(t,
                        IF missing THEN ErrorDict("[Errno 2] No such file or directory")
                        ELSE SubmitError(o), lat)
    /\ UNCHANGED <<task, completed, temp_files_dir>>
    /\ UNCHANGED <<loopvars, call>>

\* the generation backend finishes thread t's job and sends the notification
BackendComplete(t) ==
    /\ pc[t] = "recv"
    /\ ~completed[t]
    /\ completed' = [completed EXCEPT ![t] = TRUE]
    /\ UNCHANGED <<pc, task, stages, failed, reports, output>>
    /\ UNCHANGED <<loopvars, fsvars, call>>

\* get_outputs: one ws.recv(); on the completion notification the wait ends,
\* the history is read (o), run_workflow leaves temporary_directory and
\* handle_task goes on
GetOutputsRecv(t, message, o, lat) ==
    /\ pc[t] = "recv"
    /\ message = TextFrame("executing", "null", PromptId(t)) => completed[t]
    /\ IF ExecutionDone(message, PromptId(t))
       THEN /\ scoped' = [scoped EXCEPT ![t] = "removed"]
            /\ sub' = RmTree(sub, t)
            /\ AfterExecution(t, Resolve(o), lat)
       ELSE \* a preview, another message or another job's notification: skipped
            UNCHANGED <<pc, stages, failed, reports, output, scoped, sub>>
    /\ UNCHANGED <<task, completed, temp_files_dir>>
    /\ UNCHANGED <<loopvars, call>>

\* get_outputs: ws.recv() raises (the connection is closed)
GetOutputsRaise(t, lat) ==
    /\ pc[t] = "recv"
    /\ scoped' = [scoped EXCEPT ![t] = "removed"]
    /\ sub' = RmTree(sub, t)
    /\ AfterExecution(t, ErrorDict("Connection to remote host was lost."), lat)
    /\ UNCHANGED <<task, completed, temp_files_dir>>
    /\ UNCHANGED <<loopvars, call>>

\* a result handling that reports the key and latency of a failed upload
HandleTaskOutputKeepsKey(t, upload, latency) ==
    /\ pc[t] = "upload"
    /\ LET r == handle_output(task[t].task_id, task[t].task_type,
                              task[t].workflow_id, upload, latency)
       IN  IF NotLatency(r)
           THEN Reported(t, <<"upload">>, "upload",
                         Report(task[t].task_id, r.s3_key, output[t].inference_latency,
                                latency, FALSE, "Upload failed"))
           ELSE Reported(t, <<"upload">>, "",
                         Report(task[t].task_id, r.s3_key, output[t].inference_latency,
                                r.upload_latency, TRUE, ""))
    /\ UNCHANGED <<task, output, completed>>
    /\ UNCHANGED <<loopvars, fsvars, call>>

\* a result handling that reports success without testing the latency
HandleTaskOutputNoCheck(t, upload, latency) ==
    /\ pc[t] = "upload"
    /\ LET r == handle_output(task[t].task_id, task[t].task_type,
                              task[t].workflow_id, upload, latency)
       IN  Reported(t, <<"upload">>, "",
                    Report(task[t].task_id, r.s3_key, output[t].inference_latency,
                           r.upload_latency, TRUE, ""))
    /\ UNCHANGED <<task, output, completed>>
    /\ UNCHANGED <<loopvars, fsvars, call>>

\* 3. Result Handling: handle_output, then the report
HandleTaskOutput(t, upload, latency) ==
    /\ pc[t] = "upload"
    /\ LET r == handle_output(task[t].task_id, task[t].task_type,
                              task[t].workflow_id, upload, latency)
       IN  IF NotLatency(r)
           THEN Reported(t, <<"upload">>, "upload",
                         Report(task[t].task_id, NoKey, output[t].inference_latency, 0,
                                FALSE, "Upload failed"))
           ELSE Reported(t, <<"upload">>, "",
                         Report(task[t].task_id, r.s3_key, output[t].inference_latency,
                                r.upload_latency, TRUE, ""))
    /\ UNCHANGED <<task, output, completed>>
    /\ UNCHANGED <<loopvars, fsvars, call>>

ThreadStep(t) ==
    \/ HandleTaskSetup(t)
    \/ RunWorkflowEnter(t)
    \/ \E o \in SubmitOutcomes, folder \in BOOLEAN, lat \in Latencies :
          RunWorkflowSubmit(t, o, folder, lat)
    \/ \E message \in Frames, o \in ResolveOutcomes, lat \in Latencies :
          GetOutputsRecv(t, message, o, lat)
    \/ \E lat \in Latencies : GetOutputsRaise(t, lat)
    \/ \E upload \in UploadOutcomes, latency \in Latencies :
          HandleTaskOutput(t, upload, latency)

NextTask == \E t \in Threads : ThreadStep(t) \/ BackendComplete(t)

SpecTask == InitTask /\ [][NextTask]_vars

(***************************************************************************)
(* start_service.                                                          *)
(***************************************************************************)
\* the bodies that start no task: no task id, a task already running, or a
\* null msg
NoTaskBodies ==
    {EmptyBody,
     Body(NoField, "task is running", NoField, NoField, NoField, NoField),
     Body("", "no task", NoField, NoField, NoField, NoField),
     Body("t0", "task is running", "1", "txt2vid", "obj:{prompt}", "dict"),
     Body("t0", JsonNull, "1", "txt2vid", "obj:{prompt}", "dict")}

\* the bodies that hand out the task of thread t
TaskBodies(t) ==
    {Body(TaskId(t), NoField, "1", "txt2vid", "obj:{prompt}", "dict"),
     Body(TaskId(t), "ok", "9", "txt2vid", "obj:{prompt}", "dict")}

\* the responses to the POSTs of one send_miner_request: k failures (a bad
\* status, a timeout, a refused connection, in this order), then the
\* response last (repeated to the end)
ResponseSeq(k, last) ==
    [i \in 1..max_retries |->
        IF i <= k
        THEN Response(CASE i = 1 -> "status" [] i = 2 -> "Timeout" [] OTHER -> "ConnectionError",
                      EmptyBody)
        ELSE last]

LastResponses(bodies) ==
    {Response("200:notjson", EmptyBody), Response("exception", EmptyBody)}
        \cup {Response("200", b) : b \in bodies}

ResponseSeqs(bodies) ==
    {ResponseSeq(k, last) : k \in 0..max_retries, last \in LastResponses(bodies)}

Delays == 0..MaxDelay

\* the wait for ComfyUI: one iteration of the startup loop
StartupProbe(outcome, d) ==
    /\ phase = "startup"
    /\ sinceStart < startup_timeout
    /\ LET h == check_health(TRUE, outcome, healthy)
       IN  /\ healthy' = h.healthy
           /\ IF h.ret
              THEN /\ phase' = "running"
                   /\ startupOK' = TRUE
                   /\ sinceStart' = 0      \* start_time is not read again
                   /\ sinceCheck' = Min(sinceCheck + d, health_check_interval)
              ELSE /\ sinceStart' = sinceStart + d + startup_sleep
                   /\ sinceCheck' = Min(sinceCheck + d + startup_sleep, health_check_interval)
                   /\ UNCHANGED <<phase, startupOK>>
    /\ checked' = Checked(TRUE, outcome, healthy)
    /\ UNCHANGED <<server_connected, everPolled, started, tick>>
    /\ UNCHANGED <<taskvars, fsvars, call>>

\* a startup loop whose else branch does not return
StartupTimeoutFallsThrough ==
    /\ phase = "startup"
    /\ sinceStart >= startup_timeout
    /\ phase' = "running"
    /\ UNCHANGED <<healthy, server_connected, sinceStart, sinceCheck, startupOK,
                   everPolled, started, tick, checked>>
    /\ UNCHANGED <<taskvars, fsvars, call>>

\* the else branch of the startup loop: the timeout has elapsed
StartupTimeout ==
    /\ phase = "startup"
    /\ sinceStart >= startup_timeout
    /\ phase' = "exited"
    /\ UNCHANGED <<healthy, server_connected, sinceStart, sinceCheck, startupOK,
                   everPolled, started, tick, checked>>
    /\ UNCHANGED <<taskvars, fsvars, call>>

\* threading.Thread(target=self.handle_task, args=(task_id, task_data)).start()
StartThread(t, task_data) ==
    /\ pc' = [pc EXCEPT ![t] = "setup"]
    /\ task' = [task EXCEPT ![t] = task_data]
    /\ started' = started + 1

\* the health check is made when health_check_interval has elapsed
\* a health check made in every iteration
CheckEveryTick == sinceCheck >= 0

CheckDue == sinceCheck >= health_check_interval

\* the healthy branch of an iteration: the poll, the thread start, the sleep
PollAndDispatch(probed, h, base, responses, d) ==
    LET r == send_miner_request(server_connected, responses)
        go == Dispatch(r.result)
        slept == interval
    IN  /\ server_connected' = r.server_connected
        /\ everPolled' = TRUE
        /\ IF go = "start"
           THEN StartThread(started + 1, r.result.body)
           ELSE UNCHANGED <<pc, task, started>>
        /\ tick' = [valid |-> TRUE, probed |-> probed, healthy |-> h,
                    posts |-> r.posts, waits |-> r.waits,
                    result |-> r.result, dispatch |-> go,
                    started |-> IF go = "start" THEN 1 ELSE 0,
                    slept |-> slept]
        /\ sinceCheck' = Min(base + d + SumSeq(r.waits) + slept, health_check_interval)

\* the unhealthy branch: no poll, the longer sleep
SkipPolling(probed, h, base, d) ==
    LET slept == interval * 2
    IN  /\ tick' = [NoTick EXCEPT !.valid = TRUE, !.probed = probed,
                                  !.healthy = h, !.slept = slept]
        /\ sinceCheck' = Min(base + d + slept, health_check_interval)
        /\ UNCHANGED <<server_connected, everPolled, pc, task, started>>

\* an iteration that polls whatever the health flag says
IterationUngated(outcome, responses, d) ==
    LET h == IF CheckDue THEN check_health(FALSE, outcome, healthy).healthy ELSE healthy
        base == IF CheckDue THEN 0 ELSE sinceCheck
    IN  /\ healthy' = h
        /\ checked' = IF CheckDue THEN Checked(FALSE, outcome, healthy) ELSE NoCheck
        /\ PollAndDispatch(CheckDue, h, base, responses, d)

\* an iteration that makes the health check only while the flag is set
IterationNoReprobe(outcome, responses, d) ==
    LET h == IF CheckDue /\ healthy
             THEN check_health(FALSE, outcome, healthy).healthy ELSE healthy
        base == IF CheckDue THEN 0 ELSE sinceCheck
    IN  /\ healthy' = h
        /\ checked' = IF CheckDue /\ healthy
                       THEN Checked(FALSE, outcome, healthy) ELSE NoCheck
        /\ IF h
           THEN PollAndDispatch(CheckDue, h, base, responses, d)
           ELSE SkipPolling(CheckDue, h, base, d)

\* one iteration of the steady-state loop: the health check when due (outcome),
\* the poll when healthy (responses), the thread start, the sleep; d is the
\* time the network calls took
Iteration(outcome, responses, d) ==
    LET h == IF CheckDue THEN check_health(FALSE, outcome, healthy).healthy ELSE healthy
        base == IF CheckDue THEN 0 ELSE sinceCheck
    IN  /\ healthy' = h
        /\ checked' = IF CheckDue THEN Checked(FALSE, outcome, healthy) ELSE NoCheck
        /\ IF h
           THEN PollAndDispatch(CheckDue, h, base, responses, d)
           ELSE SkipPolling(CheckDue, h, base, d)

\* an iteration that first joins every thread it has started
TickAfterJoin(outcome, responses, d) ==
    /\ phase = "running"
    /\ \A t \in Threads : pc[t] \in {"idle", "done"}
    /\ Iteration(outcome, responses, d)
    /\ UNCHANGED <<sinceStart, startupOK, phase>>
    /\ UNCHANGED <<stages, failed, reports, output, completed>>
    /\ UNCHANGED <<fsvars, call>>

\* an iteration without the try/except: an exception ends the loop
TickUncaught(outcome, responses, d) ==
    /\ phase = "running"
    /\ Iteration(outcome, responses, d)
    /\ phase' = IF tick'.dispatch = "raise" THEN "exited" ELSE phase
    /\ UNCHANGED <<sinceStart, startupOK>>
    /\ UNCHANGED <<stages, failed, reports, output, completed>>
    /\ UNCHANGED <<fsvars, call>>

Tick(outcome, responses, d) ==
    /\ phase = "running"
    /\ Iteration(outcome, responses, d)
    /\ UNCHANGED <<sinceStart, startupOK, phase>>
    /\ UNCHANGED <<stages, failed, reports, output, completed>>
    /\ UNCHANGED <<fsvars, call>>

\* the bodies the dispatch server may answer with: it hands out a task only
\* while fewer than MaxStarted have been started
PollBodies ==
    NoTaskBodies \cup
        (IF started < MaxStarted /\ started < NumThreads
         THEN TaskBodies(started + 1) ELSE {})

LoopStep ==
    \/ \E outcome \in ProbeOutcomes, d \in Delays : StartupProbe(outcome, d)
    \/ StartupTimeout
    \/ \E outcome \in (IF CheckDue THEN ProbeOutcomes ELSE {"200"}), d \in Delays :
          \E responses \in ResponseSeqs(PollBodies) : Tick(outcome, responses, d)

Next == LoopStep \/ NextTask

\* the service loop with the task threads it starts
Spec == Init /\ [][Next]_vars

\* the service loop alone: the threads it starts are not scheduled
SpecLoop == Init /\ [][LoopStep]_vars

(***************************************************************************)
(* send_miner_request on its own: one call, for any responses of the       *)
(* server and either value of server_connected.                            *)
(***************************************************************************)
PollResponses ==
    LastResponses({EmptyBody, Body("t1", NoField, "1", "txt2vid", "obj:{prompt}", "dict")})
        \cup {Response(f, EmptyBody) : f \in FailKinds}

InitPoll ==
    /\ InitLoop
    /\ InitThreads
    /\ phase = "off"
    /\ pc = [t \in Threads |-> "idle"]
    /\ task = [t \in Threads |-> EmptyBody]
    /\ server_connected \in BOOLEAN
    /\ \E responses \in [1..max_retries -> PollResponses] :
          call = [NoCall EXCEPT !.responses = responses]

SendMinerRequestCall ==
    /\ ~call.done
    /\ LET r == send_miner_request(server_connected, call.responses)
       IN  /\ call' = [call EXCEPT !.done = TRUE, !.ret = r]
           /\ server_connected' = r.server_connected
    /\ UNCHANGED <<phase, healthy, sinceStart, sinceCheck, startupOK, everPolled,
                   started, tick, checked>>
    /\ UNCHANGED <<taskvars, fsvars>>

SpecPoll == InitPoll /\ [][SendMinerRequestCall]_vars

(***************************************************************************)
(* submit_result on its own: one call, for any report and any outcome of   *)
(* the POST to /miner_submit.  The return records the POSTs made, what was *)
(* logged and whether an exception left the method.                        *)
(***************************************************************************)
PostOutcomes == {"200", "status", "Timeout", "ConnectionError", "exception"}

SubmitReturn(posts, log) == [posts |-> posts, log |-> log, raised |-> FALSE]

\* a submit_result that posts a second time after a timeout or a refused connection
submit_result_post_retry(report, outcome) ==
    CASE outcome = "200" -> SubmitReturn(1, "Result submitted successfully")
      [] outcome = "status" -> SubmitReturn(1, "Submit failed with status code")
      [] outcome = "Timeout" -> SubmitReturn(2, "Request timed out while submitting result")
      [] OTHER -> SubmitReturn(2, "Failed to submit result")

submit_result_post(report, outcome) ==
    CASE outcome = "200" -> SubmitReturn(1, "Result submitted successfully")
      [] outcome = "status" -> SubmitReturn(1, "Submit failed with status code")
      [] outcome = "Timeout" -> SubmitReturn(1, "Request timed out while submitting result")
      [] OTHER -> SubmitReturn(1, "Failed to submit result")   \* except Exception

SubmitReports ==
    {Report(TaskId(1), k, i, u, ok, m) :
        k \in {NoKey, <<"test-video/", "hunyuan", "-", erc20_address, "-", TaskId(1), ".", "mp4">>},
        i \in {0} \cup Latencies, u \in {0} \cup Latencies, ok \in BOOLEAN,
        m \in {"", "Upload failed", "Missing credentials"}}

InitSubmit ==
    /\ InitLoop
    /\ InitThreads
    /\ phase = "off"
    /\ pc = [t \in Threads |-> "idle"]
    /\ task = [t \in Threads |-> EmptyBody]
    /\ server_connected = TRUE
    /\ \E report \in SubmitReports, outcome \in PostOutcomes :
          call = [responses |-> <<Response(outcome, report)>>, done |-> FALSE,
                  ret |-> SubmitReturn(0, "")]

SubmitResultCall ==
    /\ ~call.done
    /\ LET r == call.responses[1]
       IN  call' = [call EXCEPT !.done = TRUE, !.ret = submit_result_post(r.body, r.kind)]
    /\ UNCHANGED <<loopvars, taskvars, fsvars>>

SpecSubmit == InitSubmit /\ [][SubmitResultCall]_vars

(***************************************************************************)
(* ComfyUI.inject_args_into_workflow on its own: repeated calls with the   *)
(* same endpoint file, workflow file and args, inside one scoped           *)
(* directory.  A value of args is None, a str (its pieces) or a list of    *)
(* str; the graph maps each injected parameter to the value written into   *)
(* its node.                                                               *)
(***************************************************************************)
MaxInjections == 2

InjectParams == {"prompt", "tags", "images", "lora_name"}

\* the keys of args: the parameters above and one the endpoint maps nowhere
ArgKeys == InjectParams \cup {"extra"}

\* the locations (node id, field, subfield) of the workflow file: the one each
\* parameter is mapped to, named after it, and one no parameter is mapped to
GraphLocations == InjectParams \cup {"seed"}

\* comfyui.preprocessing of each parameter of the endpoint
preprocessing(key) ==
    CASE key = "tags" -> "csv"
      [] key = "images" -> "folder"
      [] OTHER -> "none"

Absent == [kind |-> "None", items |-> << >>]
StrVal(pieces) == [kind |-> "str", items |-> pieces]
ListVal(items) == [kind |-> "list", items |-> items]

\* ",".join(value): the elements of a list, or the pieces of a str
RECURSIVE Join(_)
Join(items) ==
    IF Len(items) <= 1 THEN items
    ELSE <<Head(items), ",">> \o Join(Tail(items))

\* value.endswith('.safetensors')
EndsWithSafetensors(value) ==
    Len(value.items) > 0 /\ value.items[Len(value.items)] = ".safetensors"

\* the graph json.load reads from the workflow file
workflow_file == [loc \in GraphLocations |-> [kind |-> "str", items |-> <<"file">>]]

\* the files a `folder` value names
FilesOf(value) == {value.items[i] : i \in 1..Len(value.items)}

SourceFiles == {"f1", "f2"}
DirNames == {"tmpa", "tmpb", "tmpc"}

\* the value written into the node of parameter key; name is the directory
\* tempfile.mkdtemp returns
Injected(key, value, name) ==
    LET v == IF key = "lora_name" /\ ~EndsWithSafetensors(value)
             THEN StrVal(Append(value.items, ".safetensors")) ELSE value
    IN  CASE preprocessing(key) = "csv" -> StrVal(Join(v.items))
          [] preprocessing(key) = "folder" -> StrVal(<<name>>)
          [] OTHER -> v

InjectReturn(kind, graph, args, fs) ==
    [kind |-> kind, graph |-> graph, args |-> args, fs |-> fs]

\* an injection that stores the joined csv value back into args
inject_args_in_place(args, fs, name) ==
    LET present == {k \in InjectParams : args[k] # Absent}
        folder == {k \in present : preprocessing(k) = "folder"}
        wanted == UNION {FilesOf(args[k]) : k \in folder}
        made == [fs EXCEPT !.dirs = IF folder = {} THEN @ ELSE @ \cup {name}]
    IN  IF wanted \subseteq fs.files
        THEN InjectReturn("graph",
                          [loc \in GraphLocations |->
                              IF loc \in present THEN Injected(loc, args[loc], name)
                              ELSE workflow_file[loc]],
                          [k \in ArgKeys |->
                              IF k \in present /\ preprocessing(k) = "csv"
                              THEN Injected(k, args[k], name) ELSE args[k]],
                          [made EXCEPT !.files = @ \ wanted])
        ELSE InjectReturn("FileNotFoundError", << >>, args, made)

\* an injection that also writes the None of a parameter without value
inject_args_writes_none(args, fs, name) ==
    LET present == {k \in InjectParams : args[k] # Absent}
        folder == {k \in present : preprocessing(k) = "folder"}
        wanted == UNION {FilesOf(args[k]) : k \in folder}
        made == [fs EXCEPT !.dirs = IF folder = {} THEN @ ELSE @ \cup {name}]
    IN  IF wanted \subseteq fs.files
        THEN InjectReturn("graph",
                          [loc \in GraphLocations |->
                              IF loc \in present THEN Injected(loc, args[loc], name)
                              ELSE IF loc \in InjectParams THEN Absent
                              ELSE workflow_file[loc]],
                          args, [made EXCEPT !.files = @ \ wanted])
        ELSE InjectReturn("FileNotFoundError", << >>, args, made)

\* the workflow is read from its file, then for each parameter of the
\* endpoint with a value in args the value is preprocessed and written into
\* its node; `folder` makes a directory under temp_files_dir and moves the
\* files into it (shutil.move raises when a file is not there)
inject_args_into_workflow(args, fs, name) ==
    LET present == {k \in InjectParams : args[k] # Absent}
        folder == {k \in present : preprocessing(k) = "folder"}
        wanted == UNION {FilesOf(args[k]) : k \in folder}
        made == [fs EXCEPT !.dirs = IF folder = {} THEN @ ELSE @ \cup {name}]
    IN  IF wanted \subseteq fs.files
        THEN InjectReturn("graph",
                          [loc \in GraphLocations |->
                              IF loc \in present THEN Injected(loc, args[loc], name)
                              ELSE workflow_file[loc]],
                          args, [made EXCEPT !.files = @ \ wanted])
        ELSE InjectReturn("FileNotFoundError", << >>, args, made)

\* the args of a call: every parameter absent or present, tags a list or a
\* str, images a list of files or one file
InjectArgs ==
    {[k \in ArgKeys |->
         CASE k = "prompt" -> pr [] k = "tags" -> tg [] k = "images" -> im
           [] k = "lora_name" -> lo [] OTHER -> ex] :
        pr \in {Absent, StrVal(<<"a cat">>)},
        tg \in {Absent, ListVal(<<"a", "b">>), ListVal(<<"a">>), StrVal(<<"a", "b">>)},
        im \in {Absent, ListVal(<<"f1", "f2">>), StrVal(<<"f1">>)},
        lo \in {Absent, StrVal(<<"style">>), StrVal(<<"style", ".safetensors">>)},
        ex \in {Absent, StrVal(<<"x">>)}}

InitInject ==
    /\ InitLoop
    /\ InitThreads
    /\ phase = "off"
    /\ pc = [t \in Threads |-> "idle"]
    /\ task = [t \in Threads |-> EmptyBody]
    /\ server_connected = TRUE
    /\ \E args \in InjectArgs :
          call = [args |-> args, fs |-> [dirs |-> {}, files |-> SourceFiles],
                  done |-> FALSE, ret |-> << >>]

InjectCall(name) ==
    /\ ~call.done
    /\ name \notin call.fs.dirs
    /\ LET r == inject_args_into_workflow(call.args, call.fs, name)
       IN  call' = [args |-> r.args, fs |-> r.fs,
                    done |-> Len(call.ret) + 1 = MaxInjections,
                    ret |-> Append(call.ret, [kind |-> r.kind, graph |-> r.graph])]
    /\ UNCHANGED <<loopvars, taskvars, fsvars>>

SpecInject == InitInject /\ [][\E name \in DirNames : InjectCall(name)]_vars

(***************************************************************************)
(* The construction of MinerService: the address is validated, the         *)
(* workflow names are validated against the installation, and only a       *)
(* constructed service polls and reports.                                  *)
(***************************************************************************)
MaxNames == 2
MaxSent == 2

\* an address as Web3.is_address sees it: the number of digits after an
\* optional 0x, whether they are all hexadecimal, and their case
Addresses ==
    [digits : {0, 39, 40}, hex : BOOLEAN, case : {"lower", "checksum", "mixed"}]

\* Web3.is_address: 40 hexadecimal digits, all of one case or with a valid checksum
is_address(address) ==
    address.hex /\ address.digits = 40 /\ address.case # "mixed"

\* a validation that logs the invalid address and does not raise
validate_erc20_address_logs_only(address) == [raised |-> FALSE, error |-> ""]

validate_erc20_address(address) ==
    IF ~is_address(address)
    THEN [raised |-> TRUE, error |-> "Invalid ERC20 address format"]
    ELSE [raised |-> FALSE, error |-> ""]

\* workflow_name_mappings of the registry, in the order of the file
SetOrder == <<"setA", "setB">>
workflow_name_mappings ==
    [name \in {"setA", "setB"} |-> IF name = "setA" THEN {"1", "2"} ELSE {"2"}]

get_supported_workflow_ids(workflow_name) ==
    IF workflow_name \in DOMAIN workflow_name_mappings
    THEN workflow_name_mappings[workflow_name] ELSE {}

\* the entries of workflow_names: set names, a workflow id, an unknown name
Names == {"setA", "setB", "1", "nope"}

\* workflow_names: a list of entries, or (as annotated) one str
WorkflowNames ==
    {ListVal(l) : l \in UNION {[1..n -> Names] : n \in 0..MaxNames}}
        \cup {StrVal(<<name>>) : name \in Names}

\* the key of an entry in the results of validate: the name of a set, the
\* first set that holds the id, or the entry itself
ResultKey(workflow) ==
    IF workflow \in DOMAIN workflow_name_mappings THEN workflow
    ELSE IF \E i \in 1..Len(SetOrder) : workflow \in workflow_name_mappings[SetOrder[i]]
         THEN SetOrder[CHOOSE i \in 1..Len(SetOrder) :
                          /\ workflow \in workflow_name_mappings[SetOrder[i]]
                          /\ \A j \in 1..(i - 1) :
                                workflow \notin workflow_name_mappings[SetOrder[j]]]
         ELSE workflow

\* result["valid"] of one entry: the snapshot of each of its ids loads and
\* its components are installed
EntryValid(workflow, installed) ==
    LET workflow_ids == IF workflow \in DOMAIN workflow_name_mappings
                        THEN get_supported_workflow_ids(workflow) ELSE {workflow}
    IN  \A workflow_id \in workflow_ids :
            workflow_id \in WorkflowIds /\ installed[workflow_id]

\* the loop of validate: results[key] = result, entry after entry
RECURSIVE ValidateFrom(_, _, _)
ValidateFrom(workflows, installed, results) ==
    IF workflows = << >> THEN results
    ELSE LET key == ResultKey(Head(workflows))
         IN  ValidateFrom(Tail(workflows), installed,
                 [k \in DOMAIN results \cup {key} |->
                     IF k = key THEN EntryValid(Head(workflows), installed)
                     ELSE results[k]])

\* WorkflowConfig.validate: a str is one entry, an empty list means every set
validate(workflows, installed) ==
    ValidateFrom(IF workflows.kind = "str" THEN workflows.items
                 ELSE IF workflows.items = << >> THEN SetOrder
                 ELSE workflows.items,
                 installed, << >>)

\* WorkflowConfig.get_valid_workflow_ids; iterating a str yields its
\* characters, none of which names a set
get_valid_workflow_ids(workflow_names, installed) ==
    LET validation_results == validate(workflow_names, installed)
        invalid_workflows == {name \in DOMAIN validation_results :
                                 ~validation_results[name]}
        iterated == IF workflow_names.kind = "str" THEN << >> ELSE workflow_names.items
    IN  IF invalid_workflows # {}
        THEN [raised |-> TRUE, ids |-> {},
              error |-> "Some workflows are not properly installed. Please run setup first."]
        ELSE [raised |-> FALSE, error |-> "",
              ids |-> UNION {get_supported_workflow_ids(iterated[i]) :
                                i \in 1..Len(iterated)}]

NoAddress == [digits |-> 0, hex |-> FALSE, case |-> "lower"]

InitConstruct ==
    /\ InitLoop
    /\ InitThreads
    /\ phase = "off"
    /\ pc = [t \in Threads |-> "idle"]
    /\ task = [t \in Threads |-> EmptyBody]
    /\ server_connected = TRUE
    /\ \E address \in Addresses, workflow_names \in WorkflowNames,
          installed \in [WorkflowIds -> BOOLEAN] :
          call = [address |-> address, workflow_names |-> workflow_names,
                  installed |-> installed, state |-> "new", error |-> "",
                  erc20_address |-> NoAddress, supported_workflow_ids |-> {},
                  sent |-> << >>]

\* MinerService.__init__
Construct ==
    /\ call.state = "new"
    /\ LET v == validate_erc20_address(call.address)
           w == get_valid_workflow_ids(call.workflow_names, call.installed)
       IN  call' = IF v.raised
                   THEN [call EXCEPT !.state = "raised", !.error = v.error]
                   ELSE IF w.raised
                   THEN [call EXCEPT !.state = "raised", !.error = w.error,
                                     !.erc20_address = call.address]
                   ELSE [call EXCEPT !.state = "ready",
                                     !.erc20_address = call.address,
                                     !.supported_workflow_ids = w.ids]
    /\ UNCHANGED <<loopvars, taskvars, fsvars>>

\* the json of one POST to /miner_request
SendPoll ==
    /\ call.state = "ready"
    /\ Len(call.sent) < MaxSent
    /\ call' = [call EXCEPT !.sent = Append(@,
                    [to |-> "miner_request", identity |-> call.erc20_address,
                     workflow_ids |-> call.supported_workflow_ids])]
    /\ UNCHANGED <<loopvars, taskvars, fsvars>>

\* the miner_id of one POST to /miner_submit
SendReport ==
    /\ call.state = "ready"
    /\ Len(call.sent) < MaxSent
    /\ call' = [call EXCEPT !.sent = Append(@,
                    [to |-> "miner_submit", identity |-> call.erc20_address,
                     workflow_ids |-> {}])]
    /\ UNCHANGED <<loopvars, taskvars, fsvars>>

SpecConstruct == InitConstruct /\ [][Construct \/ SendPoll \/ SendReport]_vars

(***************************************************************************)
(* ComfyUI.get_outputs on its own, with the backend: the websocket is      *)
(* connected for a client id, the job is submitted with a client id, and   *)
(* the backend sends the notifications of a job to the websocket connected *)
(* for the job's client id, if there is one at that moment.                *)
(***************************************************************************)
MaxInbox == 2

ClientIds == {"c1", "c2"}
NoClient == "<none>"

\* the calls get_outputs makes before it reads the history, in this order
get_outputs_swapped == <<"queue_prompt", "ws.connect", "ws.recv">>

get_outputs_steps == <<"ws.connect", "queue_prompt", "ws.recv">>

CallOutcomes == {"ok", "raise"}

InitOutputs ==
    /\ InitLoop
    /\ InitThreads
    /\ phase = "off"
    /\ pc = [t \in Threads |-> "idle"]
    /\ task = [t \in Threads |-> EmptyBody]
    /\ server_connected = TRUE
    /\ \E client_id \in ClientIds :
          call = [client_id |-> client_id, step |-> 1, state |-> "running",
                  ws |-> NoClient, job |-> NoClient, inbox |-> << >>,
                  notified |-> FALSE, missed |-> FALSE]

\* one call of get_outputs: ws.connect, queue_prompt, or one ws.recv
GetOutputsStep(outcome) ==
    /\ call.state = "running"
    /\ LET op == get_outputs_steps[call.step]
       IN  IF outcome = "raise"
           THEN call' = [call EXCEPT !.state = "raised"]
           ELSE CASE op = "ws.connect" ->
                       call' = [call EXCEPT !.ws = call.client_id, !.step = @ + 1]
                  [] op = "queue_prompt" ->
                       call' = [call EXCEPT !.job = call.client_id, !.step = @ + 1]
                  [] OTHER ->
                       /\ call.inbox # << >>
                       /\ call' = [call EXCEPT
                                     !.inbox = Tail(@),
                                     !.state = IF ExecutionDone(Head(call.inbox), PromptId(1))
                                               THEN "done" ELSE @]
    /\ UNCHANGED <<loopvars, taskvars, fsvars>>

\* the backend sends a message about a submitted job to the job's client;
\* the completion notification of the job is sent once, and is lost when no
\* websocket is connected for the client
BackendNotify(message) ==
    /\ call.job # NoClient
    /\ call.state = "running"
    /\ Len(call.inbox) < MaxInbox
    /\ LET completion == ExecutionDone(message, PromptId(1))
           listening == call.ws = call.job
       IN  /\ completion => ~call.notified
           /\ call' = [call EXCEPT
                         !.inbox = IF listening THEN Append(@, message) ELSE @,
                         !.notified = @ \/ completion,
                         !.missed = @ \/ (completion /\ ~listening)]
    /\ UNCHANGED <<loopvars, taskvars, fsvars>>

SpecOutputs ==
    InitOutputs /\ [][\/ \E outcome \in CallOutcomes : GetOutputsStep(outcome)
                      \/ \E message \in Frames : BackendNotify(message)]_vars

(***************************************************************************)
(* The progress the scheduler guarantees a handle_task thread: every step  *)
(* of its own.  Not guaranteed: that the backend sends the completion      *)
(* notification (BackendComplete) or that the websocket fails              *)
(* (GetOutputsRaise).                                                      *)
(***************************************************************************)
Progress(t) ==
    \/ HandleTaskSetup(t)
    \/ RunWorkflowEnter(t)
    \/ \E o \in SubmitOutcomes, folder \in BOOLEAN, lat \in Latencies :
          RunWorkflowSubmit(t, o, folder, lat)
    \/ \E o \in ResolveOutcomes, lat \in Latencies :
          GetOutputsRecv(t, TextFrame("executing", "null", PromptId(t)), o, lat)
    \/ \E upload \in UploadOutcomes, latency \in Latencies :
          HandleTaskOutput(t, upload, latency)

LiveSpecTask == SpecTask /\ \A t \in Threads : WF_vars(Progress(t))

\* the loop thread of start_service keeps running: `while True` with bounded
\* network calls and sleeps
LiveSpecLoop == SpecLoop /\ WF_vars(LoopStep)

(***************************************************************************)
(* Properties.                                                             *)
(***************************************************************************)
Running(t) == pc[t] \notin {"idle", "done"}
IsReported(t) == Len(reports[t]) > 0

\* C1: every handle_task invocation has called submit_result exactly once when
\* it returns, and never more than once, on every path.
C1_ExactlyOneReport ==
    \A t \in Threads :
        /\ Len(reports[t]) <= 1
        /\ pc[t] = "done" => Len(reports[t]) = 1
        /\ Len(reports[t]) = 1 => pc[t] = "done"

C1_Witness ==
    /\ pc[1] = "done" /\ Len(reports[1]) = 1
    /\ reports[1][1].msg = "unhashable type: 'list'"
    /\ pc[2] = "done" /\ Len(reports[2]) = 1
    /\ reports[2][1].success

StageRank(stage) ==
    CASE stage = "validate" -> 1 [] stage = "execute" -> 2
      [] stage = "upload" -> 3 [] OTHER -> 4

C3_StageOrder ==
    \A t \in Threads :
        LET st == stages[t]
        IN  /\ \A i \in 1..Len(st) : \A j \in 1..Len(st) :
                  i < j => StageRank(st[i]) < StageRank(st[j])
            /\ Len(st) > 0 => st[1] = "validate"
            /\ failed[t] # "" =>
                  /\ Len(st) >= 2
                  /\ st[Len(st) - 1] = failed[t]
                  /\ st[Len(st)] = "submit"
            /\ \A i \in 1..Len(st) : st[i] = "submit" => i = Len(st)

C3_Witness ==
    /\ stages[1] = <<"validate", "execute", "upload", "submit">>
    /\ failed[1] = ""
    /\ stages[2] = <<"validate", "execute", "submit">>
    /\ failed[2] = "execute"

\* C4: an iteration of the steady-state loop that finds the service unhealthy
\* makes no poll, starts no thread, and sleeps 2 x interval.
C4_HealthGate ==
    [][(phase = "running" /\ ~healthy') =>
          /\ tick'.posts = 0
          /\ tick'.slept = 2 * interval
          /\ started' = started
          /\ pc' = pc
          /\ server_connected' = server_connected
          /\ everPolled' = everPolled]_vars

C4_Witness ==
    /\ phase = "running"
    /\ tick.valid /\ tick.probed /\ ~tick.healthy /\ ~healthy
    /\ everPolled

\* C5: no poll is sent and no task started before a startup probe has returned
\* healthy; when the startup timeout elapses first, start_service returns
\* with no poll sent and no task started.
C5_StartupGate ==
    /\ (everPolled \/ started > 0 \/ phase = "running") => startupOK
    /\ phase = "exited" =>
          /\ ~startupOK /\ ~everPolled /\ started = 0
          /\ sinceStart >= startup_timeout
          /\ \A t \in Threads : pc[t] = "idle"

C5_Witness == phase = "exited"

\* C6: the waits of send_miner_request after its consecutive failures are
\* 2, 4, 8 seconds, at most 3 attempts are made, and after the third failure
\* the call returns None.
RECURSIVE LeadingFailures(_, _)
LeadingFailures(responses, i) ==
    IF i > Len(responses) \/ responses[i].kind \notin FailKinds THEN 0
    ELSE 1 + LeadingFailures(responses, i + 1)

C6_Backoff ==
    call.done =>
        LET n == LeadingFailures(call.responses, 1)
            w == call.ret.waits
        IN  /\ w = SubSeq(<<2, 4, 8>>, 1, n)
            /\ \A k \in 1..(Len(w) - 1) : w[k] < w[k + 1]
            /\ call.ret.posts <= 3
            /\ n = 3 => call.ret.posts = 3 /\ call.ret.result = None

C6_Witness == call.done /\ call.ret.waits = <<2, 4, 8>> /\ call.ret.result = None

\* C7: send_miner_request returns after at most 3 POSTs; on the first 200 it
\* returns the parsed body at once, with no further POST and no wait.
C7_ReturnsOn200 ==
    /\ ~call.done => ENABLED SendMinerRequestCall
    /\ call.done =>
        LET n == LeadingFailures(call.responses, 1)
        IN  /\ call.ret.posts <= 3
            /\ n < 3 =>
                  /\ call.ret.posts = n + 1
                  /\ Len(call.ret.waits) = n
                  /\ call.responses[n + 1].kind = "200" =>
                        call.ret.result =
                            [kind |-> "body", body |-> call.responses[n + 1].body]

C7_Witness ==
    /\ call.done
    /\ call.responses[1].kind = "Timeout"
    /\ call.responses[2].kind = "200"
    /\ call.ret.posts = 2
    /\ call.ret.result.kind = "body"

\* C8: when the poll returns None, a body without a task id, or a body whose
\* msg contains "running", the iteration starts no thread and sends no report.
NoOpResult(result) ==
    \/ result.kind = "None"
    \/ result.body.task_id \in {NoField, ""}
    \/ result.body.msg \in {"running", "task is running"}

C8_NoOpPoll ==
    [][(phase = "running" /\ NoOpResult(tick'.result)) =>
          /\ pc' = pc
          /\ task' = task
          /\ started' = started
          /\ reports' = reports]_vars

C8_Witness ==
    /\ tick.valid /\ tick.healthy /\ tick.posts > 0
    /\ tick.result.kind = "body"
    /\ tick.result.body.task_id = "t0"
    /\ tick.result.body.msg = "task is running"
    /\ started = 0

\* C9: the loop never waits for a task: while tasks are in flight, even one
\* waiting in get_outputs for ever, the next iteration of the loop can run.
C9_LoopNeverWaits ==
    (phase = "running" /\ \E t \in Threads : Running(t)) => ENABLED LoopStep

C9_Witness ==
    /\ phase = "running"
    /\ pc[1] = "recv" /\ ~completed[1]
    /\ tick.valid /\ tick.started = 0 /\ tick.posts > 0

\* C10: every sub-directory a task makes for `folder` preprocessing lies in
\* that task's own temporary directory, and no task's completion removes a
\* directory another task in flight still uses.
C10_TempOwnership ==
    \A t \in Threads :
        /\ sub[t].state # "none" => sub[t].parent = t
        /\ pc[t] = "recv" => sub[t].state # "removed"

\* run_workflow of thread t has returned
RunWorkflowReturned(t) ==
    /\ pc[t] \in {"upload", "done"}
    /\ \E i \in 1..Len(stages[t]) : stages[t][i] = "execute"

\* C11: once a task's run_workflow has returned, with a path or an error, its
\* scoped directory and its `folder` sub-directory no longer exist, in every
\* interleaving with other tasks.
C11_TempReleased ==
    \A t \in Threads :
        RunWorkflowReturned(t) =>
            /\ scoped[t] # "live"
            /\ sub[t].state # "live"

ConnectionLost == "Connection to remote host was lost."

\* C12: get_outputs stops waiting only on the completion notification of the
\* job it submitted (or by raising): a thread leaves the wait only when the
\* backend has sent its own job's notification, or with the report of the
\* exception ws.recv() raised; other frames and the notifications of other
\* jobs leave it waiting.
C12_JobCorrelation ==
    [][\A t \in Threads :
          (pc[t] = "recv" /\ pc'[t] # "recv") =>
              \/ completed[t]
              \/ /\ pc'[t] = "done"
                 /\ reports'[t][1].msg = ConnectionLost]_vars

C12_Witness ==
    /\ pc[1] = "upload" /\ completed[1]
    /\ output[1].data.kind = "path"
    /\ pc[2] = "recv" /\ ~completed[2]

Invoked(t, stage) == \E i \in 1..Len(stages[t]) : stages[t][i] = stage

\* C13: every report with success = false has result "" and upload_latency 0,
\* and inference_latency 0 when the task failed before execution started.
C13_FailureFields ==
    \A t \in Threads : \A i \in 1..Len(reports[t]) :
        LET r == reports[t][i]
        IN  ~r.success =>
                /\ r.result = NoKey
                /\ r.upload_latency = 0
                /\ ~Invoked(t, "execute") => r.inference_latency = 0
                /\ failed[t] = "validate" => r.inference_latency = 0

C13_Witness ==
    /\ pc[1] = "done" /\ failed[1] = "validate" /\ ~reports[1][1].success
    /\ pc[2] = "done" /\ failed[2] = "upload" /\ ~reports[2][1].success
    /\ reports[2][1].inference_latency > 0

\* C14: when a stage before the upload fails (validation, parameter
\* extraction, execution, also with an exception whose text is empty), the
\* report has success = false and a non-empty msg.
C14_NonEmptyMsg ==
    \A t \in Threads :
        (pc[t] = "done" /\ ~Invoked(t, "upload")) =>
            /\ ~reports[t][1].success
            /\ reports[t][1].msg # ""

TaskTypes == {"txt2vid", "txt2img", "img2vid", NoField}

\* C15: for every registered workflow id and every task_type other than the
\* one it declares, is_valid_task_type is false and handle_task sends the one
\* report (false, "Invalid task type for workflow") without execution or upload.
C15_TypeMismatch ==
    /\ \A w \in WorkflowIds, ty \in TaskTypes :
          ty # workflow_configs[w].task_type => ~is_valid_task_type(w, ty)
    /\ \A t \in Threads :
          LET d == task[t]
          IN  (d.workflow_id \in WorkflowIds
                  /\ d.task_type # workflow_configs[d.workflow_id].task_type) =>
                 /\ pc[t] \in {"setup", "done"}
                 /\ pc[t] = "done" =>
                       /\ reports[t] = <<Report(d.task_id, NoKey, 0, 0, FALSE,
                                                "Invalid task type for workflow")>>
                       /\ stages[t] = <<"validate", "submit">>

C15_Witness ==
    /\ pc[1] = "done"
    /\ task[1].workflow_id = "2" /\ task[1].task_type = "txt2vid"
    /\ reports[1][1].msg = "Invalid task type for workflow"

\* C16: for a task whose workflow_id is not in the registry, get_config
\* returns None and handle_task reports (false, task id, "", 0, 0) with msg
\* "Invalid workflow configuration".
C16_UnknownWorkflow ==
    \A t \in Threads :
        LET d == task[t]
        IN  (Truthy(d.workflow_id) /\ ~Unhashable(d.workflow_id)
                /\ d.workflow_id \notin WorkflowIds) =>
               /\ get_config(d.workflow_id) = None
               /\ pc[t] = "done" =>
                     reports[t] = <<Report(d.task_id, NoKey, 0, 0, FALSE,
                                           "Invalid workflow configuration")>>

\* C17: a task whose setup passes, whose credentials are a dict or sit at the
\* top level of the payload, whose execution yields a path and whose upload
\* succeeds sends the one report (true, key, both latencies, msg "").
C17_SuccessReport ==
    \A t \in Threads :
        (/\ pc[t] = "done"
         /\ TaskSetup(task[t]) = ""
         /\ task[t].credential \in {"dict", NoField}
         /\ failed[t] = ""
         /\ reports[t][1].msg # "string indices must be integers") =>
            LET r == reports[t][1]
            IN  /\ Len(reports[t]) = 1
                /\ r.success
                /\ r.msg = ""
                /\ r.result # NoKey
                /\ r.upload_latency > 0
                /\ r.inference_latency > 0

ExceptionTexts ==
    {"unhashable type: 'list'", "string indices must be integers",
     "'str' object does not support item assignment"}

\* C18: an exception raised by a stage of handle_task does not leave
\* handle_task: the thread ends with exactly one report, which is
\* (false, "", 0, 0) with the text of the exception as msg.
C18_ExceptionConversion ==
    \A t \in Threads :
        /\ pc[t] = "done" => Len(reports[t]) = 1
        /\ \A i \in 1..Len(reports[t]) :
              reports[t][i].msg \in ExceptionTexts =>
                  reports[t][i] = Report(task[t].task_id, NoKey, 0, 0, FALSE,
                                         reports[t][i].msg)
        /\ (pc[t] = "done" /\ Unhashable(task[t].workflow_id)) =>
              reports[t][1].msg = "unhashable type: 'list'"
        /\ (pc[t] = "done" /\ task[t].credential = "str" /\ failed[t] = ""
                /\ Invoked(t, "execute")) =>
              reports[t][1].msg \in ExceptionTexts

C18_Witness ==
    /\ pc[1] = "done"
    /\ task[1].credential = "str"
    /\ reports[1] = <<Report(task[1].task_id, NoKey, 0, 0, FALSE,
                             "'str' object does not support item assignment")>>
    /\ stages[1] = <<"validate", "execute", "submit">>

\* C19: an exception raised inside an iteration of the steady-state loop is
\* caught: the iteration starts no thread, sleeps `interval`, the next
\* iteration can run, and the loop never exits once startup has succeeded.
C19_LoopSurvives ==
    /\ startupOK => phase = "running"
    /\ (tick.valid /\ tick.dispatch = "raise") =>
          /\ tick.slept = interval
          /\ tick.started = 0
          /\ ENABLED LoopStep

C19_Witness ==
    /\ phase = "running"
    /\ tick.valid /\ tick.healthy /\ tick.posts > 0
    /\ tick.dispatch = "raise"
    /\ tick.result.body.msg = JsonNull

\* C20: a call of submit_result makes exactly one POST to /miner_submit,
\* whatever its outcome (200, another status, a timeout, a refused
\* connection, another exception), and never raises.
C20_OnePost ==
    call.done =>
        /\ call.ret.posts = 1
        /\ ~call.ret.raised
        /\ call.ret.log # ""

C20_Witness ==
    /\ call.done
    /\ call.responses[1].kind = "Timeout"
    /\ call.ret.posts = 1
    /\ call.ret.log = "Request timed out while submitting result"

\* C21: in send_miner_request an exception other than Timeout and
\* ConnectionError (a 200 whose body does not parse, any other exception of
\* the POST) ends the call at once: None, no wait after it, no further POST.
C21_AbortOnException ==
    call.done =>
        LET n == LeadingFailures(call.responses, 1)
        IN  (n < max_retries
                /\ call.responses[n + 1].kind \in {"200:notjson", "exception"}) =>
               /\ call.ret.result = None
               /\ call.ret.posts = n + 1
               /\ Len(call.ret.waits) = n
               /\ ~server_connected

C21_Witness ==
    /\ call.done
    /\ call.responses[1].kind = "Timeout"
    /\ call.responses[2].kind = "200:notjson"
    /\ call.responses[3].kind = "200"
    /\ call.ret.result = None
    /\ call.ret.posts = 2
    /\ call.ret.waits = <<2>>

\* C29: server_connected is observability only: for every sequence of
\* responses, send_miner_request makes the same POSTs, sleeps the same waits
\* and returns the same value whether the flag starts true or false.
C29_FlagNotRead ==
    LET a == send_miner_request(TRUE, call.responses)
        b == send_miner_request(FALSE, call.responses)
    IN  /\ a.result = b.result
        /\ a.posts = b.posts
        /\ a.waits = b.waits
        /\ call.done =>
              /\ call.ret.result = a.result
              /\ call.ret.posts = a.posts
              /\ call.ret.waits = a.waits

C29_Witness ==
    /\ call.done
    /\ call.responses[1].kind = "ConnectionError"
    /\ call.responses[2].kind = "200"
    /\ call.ret.result.kind = "body"
    /\ server_connected

\* C22 (as claimed): calls of inject_args_into_workflow with the same files
\* and args yield identical graphs, for every preprocessing kind.
C22_InjectionPure ==
    \A i \in 1..Len(call.ret) :
        call.ret[i].kind = "graph" /\ call.ret[i] = call.ret[1]

\* C22 (amended): calls with the same files and args yield identical graphs
\* when no parameter with `folder` preprocessing has a value; with one, each
\* call makes a new directory and moves the files, so a repeated call does
\* not yield the first graph.
C22_InjectionPureNoFolder ==
    \A i \in 1..Len(call.ret) :
        IF call.args["images"] = Absent
        THEN call.ret[i].kind = "graph" /\ call.ret[i] = call.ret[1]
        ELSE i > 1 => call.ret[i] # call.ret[1]

C22_Witness ==
    /\ Len(call.ret) = 2
    /\ call.args["images"] = Absent
    /\ call.args["tags"] = ListVal(<<"a", "b">>)
    /\ call.args["lora_name"] = StrVal(<<"style">>)
    /\ call.ret[2].kind = "graph"
    /\ call.ret[2].graph["tags"] = StrVal(<<"a", ",", "b">>)
    /\ call.ret[2] = call.ret[1]

\* the messages run_workflow returns in an error value: the message of
\* prepare_args, its own three messages, and the text of an exception
RunWorkflowErrors ==
    {"Invalid parameter", "No output found for node id 9", "No outputs generated",
     "Output file not found", "", "'outputs'", "[Errno 2] No such file or directory",
     "HTTP Error 400: Bad Request", "Connection to remote host was lost."}

\* the files the backend wrote
WrittenFiles == {"/ComfyUI/output/video_00001.mp4", "/ComfyUI/output/error_00001.mp4"}

\* C23: run_workflow returns an error value (it never raises) when prepare
\* reports a message, the output node is absent or has no output, the file
\* is missing or an exception is raised: the upload is reached only with the
\* path of a written file, and a failed execution is reported once as a
\* failure carrying the error text, with no upload.
C23_ErrorValue ==
    \A t \in Threads :
        /\ pc[t] = "upload" =>
              /\ output[t].data.kind = "path"
              /\ output[t].data.path \in WrittenFiles
        /\ failed[t] = "execute" =>
              /\ pc[t] = "done"
              /\ ~Invoked(t, "upload")
              /\ \E m \in RunWorkflowErrors :
                    reports[t] = <<Report(task[t].task_id, NoKey, 0, 0, FALSE, m)>>

C23_Witness ==
    /\ pc[1] = "done" /\ failed[1] = "execute"
    /\ reports[1] = <<Report(task[1].task_id, NoKey, 0, 0, FALSE, "Output file not found")>>
    /\ ~Invoked(1, "upload")
    /\ pc[2] = "done" /\ failed[2] = "execute"
    /\ reports[2][1].msg = "Invalid parameter"

\* C24: when the upload fails (the transfer raises, e.g. on an unreadable
\* file, or answers another status than 200) handle_output returns a
\* latency of None and the step of handle_task sends the report (false,
\* "Upload failed") with the measured inference latency, result "" and
\* upload_latency 0, and ends.
C24_UploadFailed ==
    [][\A t \in Threads : \A upload \in UploadOutcomes \ {"200"}, latency \in Latencies :
          HandleTaskOutput(t, upload, latency) =>
              /\ handle_output(task[t].task_id, task[t].task_type, task[t].workflow_id,
                               upload, latency).is_none
              /\ reports'[t] = Append(reports[t],
                      Report(task[t].task_id, NoKey, output[t].inference_latency, 0,
                             FALSE, "Upload failed"))
              /\ output[t].inference_latency \in Latencies
              /\ failed'[t] = "upload"
              /\ pc'[t] = "done"]_vars

C24_Witness ==
    /\ pc[1] = "done" /\ failed[1] = "upload"
    /\ output[1].inference_latency > 0
    /\ reports[1] = <<Report(task[1].task_id, NoKey, output[1].inference_latency, 0,
                             FALSE, "Upload failed")>>

\* C25 (as claimed): the destination key of a successful report is
\* {prefix}-{minerIdentity}-{taskId}.{extension} for video and {taskId}.jpg
\* for image.
C25_KeyAsClaimed ==
    \A t \in Threads : \A i \in 1..Len(reports[t]) :
        LET r == reports[t][i]
            c == workflow_configs[task[t].workflow_id].output
        IN  r.success =>
                r.result = IF task[t].task_type = "txt2vid"
                           THEN <<c.prefix, "-", erc20_address, "-", r.task_id, ".", c.format>>
                           ELSE <<r.task_id, ".jpg">>

\* C25 (amended): the destination key of a successful report is
\* test-video/{prefix}-{minerIdentity}-{taskId}.{extension} for txt2vid and
\* flux-lora/{prefix}-{minerIdentity}-{taskId}.{extension} for txt2img, with
\* prefix and extension from the workflow's output config.
C25_KeyAsBuilt ==
    \A t \in Threads : \A i \in 1..Len(reports[t]) :
        LET r == reports[t][i]
            c == workflow_configs[task[t].workflow_id].output
        IN  r.success =>
                /\ task[t].task_type \in {"txt2vid", "txt2img"}
                /\ r.result = <<IF task[t].task_type = "txt2vid" THEN "test-video/"
                                ELSE "flux-lora/",
                                c.prefix, "-", erc20_address, "-", r.task_id, ".", c.format>>

C25_Witness ==
    /\ pc[1] = "done" /\ reports[1][1].success
    /\ reports[1][1].result =
          <<"flux-lora/", "flux", "-", erc20_address, "-", task[1].task_id, ".", "jpg">>
    /\ pc[2] = "done" /\ reports[2][1].success
    /\ reports[2][1].result =
          <<"test-video/", "hunyuan", "-", erc20_address, "-", task[2].task_id, ".", "mp4">>

\* an entry of workflow_names passes validation
NamedValid(name, installed) ==
    IF name \in DOMAIN workflow_name_mappings
    THEN \A id \in workflow_name_mappings[name] : installed[id]
    ELSE name \in WorkflowIds /\ installed[name]

\* the entries a workflow_names value gives
Given(workflow_names) ==
    {workflow_names.items[i] : i \in 1..Len(workflow_names.items)}

\* C26: with a valid address, get_valid_workflow_ids returns the union of
\* the ids mapped from each given set name when every given entry passes
\* validation, and raises ValueError when one does not, so that the
\* construction fails and no poll is sent.
C26_ValidIds ==
    (call.state # "new" /\ is_address(call.address)) =>
        IF \A name \in Given(call.workflow_names) : NamedValid(name, call.installed)
        THEN /\ call.state = "ready"
             /\ call.supported_workflow_ids =
                   UNION {get_supported_workflow_ids(name) :
                             name \in Given(call.workflow_names)}
        ELSE /\ call.state = "raised"
             /\ call.sent = << >>

\* C30: a MinerService is not constructed with an invalid address: the
\* construction raises ValueError("Invalid ERC20 address format") and nothing
\* is sent; every poll and every report of a constructed service carries the
\* validated address.
C30_ValidatedIdentity ==
    /\ (call.state # "new" /\ ~is_address(call.address)) =>
          /\ call.state = "raised"
          /\ call.error = "Invalid ERC20 address format"
          /\ call.sent = << >>
    /\ \A i \in 1..Len(call.sent) :
          /\ is_address(call.sent[i].identity)
          /\ call.sent[i].identity = call.address

C30_Witness ==
    /\ call.state = "ready"
    /\ Len(call.sent) = 2
    /\ call.sent[1].to = "miner_request" /\ call.sent[2].to = "miner_submit"
    /\ call.sent[1].identity = [digits |-> 40, hex |-> TRUE, case |-> "checksum"]
    /\ call.sent[2].identity = call.sent[1].identity

\* C27 (as claimed): a failed startup probe produces no log entry; a
\* steady-state probe produces exactly one entry when the health state
\* changes and none when it leaves the state unchanged.
C27_LogOnTransitionOnly ==
    checked.outcome # "none" =>
        IF checked.startup_check
        THEN ~checked.ret => checked.logs = << >>
        ELSE IF checked.before # healthy
             THEN Len(checked.logs) = 1
             ELSE checked.logs = << >>

\* C27 (amended): the health check of a startup probe produces no log entry;
\* in steady state check_health logs exactly once per transition ("not
\* responding" or "recovered") and nothing for a probe that leaves the state
\* unchanged, and before that is_server_running logs the connection error
\* of every probe that raises an exception, whatever the state.
C27_HealthLogs ==
    checked.outcome # "none" =>
        IF checked.startup_check
        THEN checked.logs = << >>
        ELSE checked.logs =
                (IF checked.outcome = "exception"
                 THEN <<"Connection error during health check">> ELSE << >>)
                \o (IF checked.before /\ ~healthy THEN <<"not responding">>
                    ELSE IF ~checked.before /\ healthy THEN <<"recovered">>
                    ELSE << >>)

C27_Witness ==
    /\ phase = "running"
    /\ ~checked.startup_check
    /\ checked.outcome = "status"
    /\ checked.before /\ ~healthy
    /\ checked.logs = <<"not responding">>

\* C28: after every call of check_health, at startup or in steady state,
\* the healthy flag equals the result of the probe of that call, and the
\* call returns that value.
C28_FlagIsProbeResult ==
    checked.outcome # "none" =>
        /\ healthy = (checked.outcome = "200")
        /\ checked.ret = healthy

C28_Witness ==
    /\ phase = "running"
    /\ ~checked.startup_check
    /\ ~checked.before
    /\ checked.outcome = "200"
    /\ healthy /\ checked.ret

\* C31: in steady state the healthy flag falls only in a step whose probe
\* failed, and if from some point on every probe succeeds, a loop that is
\* not polling eventually probes again, sets healthy and polls.
C31_DegradedAndBack ==
    /\ [][(phase = "running" /\ healthy /\ ~healthy') =>
             /\ ~checked'.startup_check
             /\ checked'.outcome \in {"status", "exception"}
             /\ tick'.posts = 0]_vars
    /\ (<>[][checked'.outcome \in {"none", "200"}]_vars) =>
          ((phase = "running" /\ ~healthy) ~> (healthy /\ tick.valid /\ tick.posts > 0))

C31_Witness ==
    /\ phase = "running"
    /\ ~checked.startup_check /\ checked.outcome = "200" /\ ~checked.before
    /\ healthy
    /\ tick.valid /\ tick.probed /\ tick.posts > 0

\* the task passes the checks of workflow id and task type
WorkflowChecksPass(task_data) ==
    /\ task_data.workflow_id \in WorkflowIds
    /\ task_data.task_type = workflow_configs[task_data.workflow_id].task_type

\* C32: task_details is accepted as a JSON string or as an object; a prompt
\* key gives {prompt: value}, otherwise the `parameters` object; when
\* task_details is absent, unparsable or yields an empty parameter set,
\* handle_task sends the one report (false, "Failed to extract parameters")
\* and does not execute; with parameters it goes on to the execution.
C32_ParameterExtraction ==
    /\ extract_parameters("str:{prompt}") = "{prompt}"
    /\ extract_parameters("obj:{prompt}") = "{prompt}"
    /\ extract_parameters("obj:{prompt,parameters}") = "{prompt}"
    /\ extract_parameters("obj:{parameters}") = "{parameters}"
    /\ \A t \in Threads :
          (pc[t] \notin {"idle", "setup"} /\ WorkflowChecksPass(task[t])) =>
              IF task[t].task_details \in
                    {NoField, "str:notjson", "str:[]", "obj:{}", "obj:{parameters:{}}"}
              THEN /\ pc[t] = "done"
                   /\ reports[t] = <<Report(task[t].task_id, NoKey, 0, 0, FALSE,
                                            "Failed to extract parameters")>>
                   /\ ~Invoked(t, "execute")
              ELSE failed[t] # "validate"

C32_Witness ==
    /\ pc[1] = "done"
    /\ WorkflowChecksPass(task[1])
    /\ task[1].task_details = "str:notjson"
    /\ reports[1] = <<Report(task[1].task_id, NoKey, 0, 0, FALSE,
                             "Failed to extract parameters")>>
    /\ pc[2] = "done" /\ Invoked(2, "execute")

\* C35: whenever run_workflow returns an artifact path, whatever text the
\* path contains, handle_task goes on to the credential check and the
\* upload: with credentials it reaches the upload stage, and it sends no
\* report of a failed execution.
C35_ArtifactProceeds ==
    [][\A t \in Threads : \A o \in {"file", "file:error"}, lat \in Latencies :
          GetOutputsRecv(t, TextFrame("executing", "null", PromptId(t)), o, lat) =>
              /\ Resolve(o).kind = "path"
              /\ failed'[t] # "execute"
              /\ task[t].credential = "dict" =>
                    /\ pc'[t] = "upload"
                    /\ reports'[t] = reports[t]
              /\ task[t].credential \in {NoField, "{}"} =>
                    reports'[t] = Append(reports[t],
                        Report(task[t].task_id, NoKey, lat, 0, FALSE,
                               "Missing credentials"))]_vars

\* C33: a task whose `credential` field is absent or empty and whose
\* execution succeeded sends the one report (false, "Missing credentials")
\* with the measured inference latency and upload_latency 0, and
\* handle_output is not called.
C33_MissingCredentials ==
    \A t \in Threads :
        (/\ pc[t] = "done"
         /\ Invoked(t, "execute")
         /\ failed[t] # "execute"
         /\ task[t].credential \in {NoField, "{}"}) =>
            /\ ~Invoked(t, "upload")
            /\ \E lat \in Latencies :
                  reports[t] = <<Report(task[t].task_id, NoKey, lat, 0, FALSE,
                                        "Missing credentials")>>

\* C34: an iteration of the steady-state loop makes the health check if and
\* only if health_check_interval has elapsed since last_health_check; an
\* iteration without check leaves the healthy flag unchanged and polls or
\* skips according to it.
C34_ProbeWhenDue ==
    [][(phase = "running" /\ tick'.valid) =>
          /\ tick'.probed <=> sinceCheck >= health_check_interval
          /\ checked'.outcome # "none" <=> sinceCheck >= health_check_interval
          /\ sinceCheck < health_check_interval =>
                /\ healthy' = healthy
                /\ tick'.posts > 0 <=> healthy
                /\ tick'.posts = 0 <=> ~healthy]_vars

C34_Witness ==
    /\ phase = "running"
    /\ tick.valid /\ ~tick.probed /\ checked.outcome = "none"
    /\ ~healthy /\ tick.posts = 0
    /\ sinceCheck < health_check_interval

\* C36: every 200 response with a non-empty task_id whose msg does not
\* contain "running" (msg absent or JSON null included) makes the iteration
\* start exactly one handle_task thread for that task_id.
C36_TaskStarted ==
    [][(/\ phase = "running"
        /\ tick'.valid
        /\ tick'.result.kind = "body"
        /\ Truthy(tick'.result.body.task_id)
        /\ ~ContainsRunning(tick'.result.body.msg)) =>
          /\ tick'.started = 1
          /\ started' = started + 1
          /\ pc'[started'] = "setup"
          /\ task'[started'].task_id = tick'.result.body.task_id]_vars

\* C37: a report with success = true is sent only after validation,
\* execution and upload have succeeded, and has a non-empty key, a non-zero
\* upload_latency and an empty msg.
C37_SuccessOnlyAfterAll ==
    \A t \in Threads : \A i \in 1..Len(reports[t]) :
        LET r == reports[t][i]
        IN  r.success =>
                /\ stages[t] = <<"validate", "execute", "upload", "submit">>
                /\ TaskSetup(task[t]) = ""
                /\ failed[t] = ""
                /\ output[t].data.kind = "path"
                /\ r.result # NoKey
                /\ r.upload_latency > 0
                /\ r.msg = ""

C37_Witness ==
    /\ pc[1] = "done"
    /\ Len(reports[1]) = 1 /\ reports[1][1].success
    /\ stages[1] = <<"validate", "execute", "upload", "submit">>
    /\ reports[1][1].result # NoKey
    /\ reports[1][1].upload_latency > 0
    /\ pc[2] = "done" /\ failed[2] = "upload" /\ ~reports[2][1].success

\* C38: in get_outputs the websocket is connected with the job's client id
\* before the job is submitted: whenever the job is submitted the client is
\* listening, and no completion notification of the job is sent while it is
\* not.
C38_SubscribedBeforeSubmit ==
    /\ call.job # NoClient => call.ws = call.job
    /\ ~call.missed

C38_Witness ==
    /\ call.state = "done"
    /\ call.ws = call.client_id /\ call.job = call.client_id
    /\ call.notified /\ ~call.missed

\* C39: handle_output builds a key and uploads only for task_type txt2vid
\* or txt2img; a task of another type is never reported with success = true,
\* even when its workflow declares the type and the pipeline produced an
\* artifact: its result handling ends in the report "Upload failed".
C39_OtherTypesNeverSucceed ==
    \A t \in Threads :
        task[t].task_type \notin {"txt2vid", "txt2img"} =>
            /\ \A i \in 1..Len(reports[t]) : ~reports[t][i].success
            /\ (pc[t] = "done" /\ Invoked(t, "upload")) =>
                  reports[t] = <<Report(task[t].task_id, NoKey,
                                        output[t].inference_latency, 0, FALSE,
                                        "Upload failed")>>

C39_Witness ==
    /\ pc[1] = "done"
    /\ task[1].workflow_id = "3" /\ task[1].task_type = "upscale"
    /\ is_valid_task_type("3", "upscale")
    /\ output[1].data.kind = "path"
    /\ Invoked(1, "upload")
    /\ reports[1][1].msg = "Upload failed"

\* C40: inject_args_into_workflow changes only the locations mapped from
\* parameters present with a value: the location of a parameter that is
\* absent or None keeps the workflow file's value, a parameter without
\* mapping is ignored, and every other location is unchanged.
C40_InjectionFrame ==
    \A i \in 1..Len(call.ret) :
        call.ret[i].kind = "graph" =>
            /\ DOMAIN call.ret[i].graph = GraphLocations
            /\ \A loc \in GraphLocations :
                  (loc \notin InjectParams \/ call.args[loc] = Absent) =>
                      call.ret[i].graph[loc] = workflow_file[loc]

C40_Witness ==
    /\ Len(call.ret) >= 1
    /\ call.ret[1].kind = "graph"
    /\ call.args["prompt"] = StrVal(<<"a cat">>)
    /\ call.args["tags"] = Absent
    /\ call.args["extra"] = StrVal(<<"x">>)
    /\ call.ret[1].graph["prompt"] = StrVal(<<"a cat">>)
    /\ call.ret[1].graph["tags"] = workflow_file["tags"]
    /\ call.ret[1].graph["seed"] = workflow_file["seed"]

====
